---- MODULE Spec2Model ----
(***************************************************************************)
(* The HTTP rate limit filter (source/common/http/filter/ratelimit.cc):    *)
(* one Filter instance serving one request.  The filter's fields, the      *)
(* calls it makes on its collaborators (decision client, stream callbacks, *)
(* cluster stats) and the values it returns to the filter chain are the    *)
(* state; every handler of the filter is one action.                       *)
(***************************************************************************)
EXTENDS Integers, Sequences, FiniteSets, TLC

\* ------------------------------------------------------------------ bounds
\* Longest rate limit policy (entries applicable at the configured stage).
MaxRules == 1
\* Most decodeData calls delivered to the filter for one request.
MaxData == 2
\* Most firings of the reset-stream callback when the stream misbehaves.
MaxResets == 2
\* Most complete() invocations when the decision client misbehaves.
MaxCompletes == 2

\* --------------------------------------------------------------- constants
\* Code::TooManyRequests, the status of TOO_MANY_REQUESTS_HEADER.
TooManyRequests == 429

\* State of ratelimit.h, in declaration order.
States == <<"Idle", "Calling", "Complete", "Responded">>

\* ::RateLimit::LimitStatus
LimitStatus == {"OK", "Error", "OverLimit"}

\* The descriptors a policy entry can produce for the request.
Descriptor == {"a", "b"}

\* Route keys of policy entries; "" is the empty route key.
RouteKeys == {"", "k"}

\* What dereferencing a null cluster_ can do: the process faults, or the
\* build carries on without any counter having been charged.
NullDeref == {"segv", "no_effect"}

\* The stats the filter charges.
NoStats == [ok |-> 0, error |-> 0, over_limit |-> 0, rc_429 |-> 0]

VARIABLES
    state_,            \* Filter::state_
    initiating_call_,  \* Filter::initiating_call_
    cluster_,          \* Filter::cluster_: "unset", "null" or "cluster"
    gate,              \* what ratelimit.http_filter_enabled answered decodeHeaders
    routeAsked,        \* decodeHeaders called callbacks_->route()
    evaluated,         \* decodeHeaders ran the policy evaluation
    descriptors,       \* decodeHeaders' local descriptors once evaluated
    limitCalls,        \* descriptor lists passed to client_->limit, in order
    cancelCalls,       \* number of client_->cancel() calls
    pending,           \* the client holds a call it has neither completed nor seen cancelled
    completions,       \* complete() invocations: [status, enforcing, sync]
    stats,             \* cluster_->statsScope() counters and the response-code stat
    encoded,           \* responses sent with callbacks_->encodeHeaders
    responseFlag,      \* requestInfo().setResponseFlag(RateLimited) was called
    continued,         \* number of callbacks_->continueDecoding() calls
    hdrStatus,         \* what decodeHeaders returned ("none": not returned)
    dataStatus,        \* what each decodeData call returned, in order
    trailersStatus,    \* what decodeTrailers returned ("none": not called)
    resetLog,          \* state_ seen by each firing of the reset-stream callback
    reentries,         \* handlers re-entered from a callback made by complete()
    routePolicy,       \* the route's policy, where the specification fixes it
    vhPolicy,          \* the virtual host's policy, where the specification fixes it
    fault,             \* "none", "segv" (null cluster_) or "assert" (ASSERT failed)
    debug              \* the build compiles ASSERT in

effects == <<limitCalls, cancelCalls, pending, completions, stats, encoded,
             responseFlag, continued, resetLog, reentries>>
filter == <<state_, initiating_call_, cluster_>>
headers == <<gate, routeAsked, evaluated, descriptors, hdrStatus>>
chain == <<headers, dataStatus, trailersStatus>>
policies == <<routePolicy, vhPolicy>>
vars == <<filter, effects, chain, fault, debug, policies>>

\* ---------------------------------------------------------------- helpers
\* All sequences over S of length at most n.
SeqsUpTo(S, n) == UNION {[1..k -> S] : k \in 0..n}

\* Position of a state in the declaration order of State.
Rank(st) == CHOOSE i \in 1..Len(States) : States[i] = st

\* The filter's fields and the calls it has made, as one value that the
\* handlers below transform.
Cur ==
    [state_ |-> state_, initiating_call_ |-> initiating_call_,
     cluster_ |-> cluster_, limitCalls |-> limitCalls,
     cancelCalls |-> cancelCalls, pending |-> pending,
     completions |-> completions, stats |-> stats, encoded |-> encoded,
     responseFlag |-> responseFlag, continued |-> continued, fault |-> fault,
     resetLog |-> resetLog, reentries |-> reentries]

Commit(f) ==
    /\ state_' = f.state_
    /\ initiating_call_' = f.initiating_call_
    /\ cluster_' = f.cluster_
    /\ limitCalls' = f.limitCalls
    /\ cancelCalls' = f.cancelCalls
    /\ pending' = f.pending
    /\ completions' = f.completions
    /\ stats' = f.stats
    /\ encoded' = f.encoded
    /\ responseFlag' = f.responseFlag
    /\ continued' = f.continued
    /\ fault' = f.fault
    /\ resetLog' = f.resetLog
    /\ reentries' = f.reentries

\* ------------------------------------------------------ policy evaluation
\* A policy entry as the filter sees it for one request: its route key, what
\* the runtime answers when asked ratelimit.<route_key>.http_filter_enabled
\* for it, and the descriptors its populateDescriptors appends.
RuleEntries ==
    {[routeKey |-> k, enabled |-> e, descs |-> d] :
        k \in RouteKeys, e \in BOOLEAN, d \in SeqsUpTo(Descriptor, 1)}

\* The applicable entries of a policy, in the policy's order.
Policies == SeqsUpTo(RuleEntries, MaxRules)

\* RuleSkipped that never skips: the per-route gate is not consulted.
RuleSkipped_Never(rate_limit) == FALSE

\* The loop's test: the entry is skipped.
RuleSkipped(rate_limit) ==
    rate_limit.routeKey # "" /\ ~rate_limit.enabled

RECURSIVE PopulateFrom(_, _, _)
PopulateFrom(policy, i, descs) ==
    IF i > Len(policy) THEN descs
    ELSE PopulateFrom(policy, i + 1,
                      IF RuleSkipped(policy[i]) THEN descs
                      ELSE descs \o policy[i].descs)

\* Filter::populateRateLimitDescriptors: appends to descs.
populateRateLimitDescriptors(policy, descs) == PopulateFrom(policy, 1, descs)

\* CollectDescriptors evaluating the virtual host's policy first.
CollectDescriptors_VhostFirst(routeRules, vhRules) ==
    populateRateLimitDescriptors(routeRules,
        populateRateLimitDescriptors(vhRules, <<>>))

\* The descriptors decodeHeaders collects: the route's, then the virtual host's.
CollectDescriptors(routeRules, vhRules) ==
    populateRateLimitDescriptors(vhRules,
        populateRateLimitDescriptors(routeRules, <<>>))

\* Every descriptor list some pair of policies yields.
DescriptorLists ==
    {CollectDescriptors(rp, vp) : rp \in Policies, vp \in Policies}

\* ------------------------------------------------- decodeData / Trailers
\* ASSERT(state_ != State::Responded): fails only where ASSERT is compiled in.
AssertFails(st, dbg) == dbg /\ st = "Responded"

\* decodeData that never pauses the body.
decodeData_NeverBuffers(st) == "Continue"

\* Filter::decodeData
decodeData(st) ==
    IF st = "Calling" THEN "StopIterationAndBuffer" ELSE "Continue"

\* Filter::decodeTrailers
decodeTrailers(st) ==
    IF st = "Calling" THEN "StopIteration" ELSE "Continue"

\* ------------------------------------------------------- reset callback
\* ResetCancels testing for any Phase but Idle instead of Calling.
ResetCancels_NotIdle(st) == st # "Idle"

\* The test of the callback added in setDecoderFilterCallbacks.
ResetCancels(st) == st = "Calling"

\* onResetStream that also puts the filter back to Idle after cancelling.
onResetStream_Rewinds(f) ==
    IF ResetCancels(f.state_)
    THEN [f EXCEPT !.cancelCalls = @ + 1, !.pending = FALSE,
                   !.state_ = "Idle"]
    ELSE f

\* The reset-stream callback; cancel() makes the client drop the call.
onResetStream(f) ==
    IF ResetCancels(f.state_)
    THEN [f EXCEPT !.cancelCalls = @ + 1, !.pending = FALSE]
    ELSE f

\* The stream fires its reset callbacks: the filter's callback runs.
FireReset(f) == [onResetStream(f) EXCEPT !.resetLog = Append(@, f.state_)]

\* ------------------------------------------------------------ re-entry
\* What the chain may do on the stack of a callback the filter makes.
Reentry == {"none", "decodeData", "decodeTrailers", "reset"}

\* Sending the response can reset the stream; resuming the chain can also
\* bring body data or trailers back through the filter.
ReentryFrom(callback) ==
    IF callback = "encodeHeaders" THEN {"none", "reset"} ELSE Reentry

\* The filter makes the callback and the chain re-enters handler re, which
\* runs on the fields as they are at that point of complete().
Reenter(f, callback, re) ==
    LET entry(result) == [callback |-> callback, handler |-> re,
                          phase |-> f.state_, result |-> result]
    IN  IF re = "none" \/ re \notin ReentryFrom(callback) THEN f
        ELSE IF re = "reset"
        THEN [FireReset(f) EXCEPT !.reentries =
                Append(@, entry(IF FireReset(f).cancelCalls > f.cancelCalls
                                THEN "cancel" ELSE "no_cancel"))]
        ELSE IF re = "decodeData"
        THEN [f EXCEPT !.reentries = Append(@, entry(decodeData(f.state_)))]
        ELSE [f EXCEPT !.reentries = Append(@, entry(decodeTrailers(f.state_)))]


\* -------------------------------------------------------------- complete
\* The switch of complete(): one outcome counter, and for OverLimit the
\* response-code stat.  Every case dereferences cluster_ first.
ChargeStats(f, status, ub) ==
    IF f.cluster_ # "cluster"
    THEN IF ub = "segv" THEN [f EXCEPT !.fault = "segv"] ELSE f
    ELSE CASE status = "OK" -> [f EXCEPT !.stats.ok = @ + 1]
           [] status = "Error" -> [f EXCEPT !.stats.error = @ + 1]
           [] status = "OverLimit" ->
                [f EXCEPT !.stats.over_limit = @ + 1, !.stats.rc_429 = @ + 1]

\* The test that makes complete() answer the request itself.
Enforced(status, enforcing) == status = "OverLimit" /\ enforcing

\* The test that makes complete() resume the chain.
ShouldContinue(f) == ~f.initiating_call_

\* complete() that makes its callbacks first and sets state_ afterwards.
complete_SetsPhaseLast(f, status, enforcing, ub, re) ==
    LET f2 == ChargeStats(f, status, ub)
    IN  IF f2.fault # "none" THEN [f2 EXCEPT !.state_ = "Complete"]
        ELSE IF Enforced(status, enforcing)
        THEN [Reenter([f2 EXCEPT !.encoded =
                          Append(@, [status |-> TooManyRequests,
                                     end_stream |-> TRUE])],
                      "encodeHeaders", re)
              EXCEPT !.state_ = "Responded", !.responseFlag = TRUE]
        ELSE IF ShouldContinue(f2)
        THEN [Reenter([f2 EXCEPT !.continued = @ + 1], "continueDecoding", re)
              EXCEPT !.state_ = "Complete"]
        ELSE [f2 EXCEPT !.state_ = "Complete"]

\* Filter::complete, called by the decision client with the verdict; re is
\* what the chain does on the stack of the callback complete() makes.
complete(f, status, enforcing, ub, re) ==
    LET f1 == [f EXCEPT !.state_ = "Complete"]
        f2 == ChargeStats(f1, status, ub)
    IN  IF f2.fault # "none" THEN f2
        ELSE IF Enforced(status, enforcing)
        THEN [Reenter([f2 EXCEPT !.state_ = "Responded",
                                 !.encoded =
                                    Append(@, [status |-> TooManyRequests,
                                               end_stream |-> TRUE])],
                      "encodeHeaders", re)
              EXCEPT !.responseFlag = TRUE]
        ELSE IF ShouldContinue(f2)
        THEN Reenter([f2 EXCEPT !.continued = @ + 1], "continueDecoding", re)
        ELSE f2

\* The decision client invokes the handler: the call is no longer held.
Deliver(f, status, enforcing, ub, re, sync) ==
    complete([f EXCEPT !.pending = FALSE,
                       !.completions = Append(@, [status |-> status,
                                                  enforcing |-> enforcing,
                                                  sync |-> sync])],
             status, enforcing, ub, re)

\* ---------------------------------------------------------- decodeHeaders
\* What the client does inside limit(): keep the call ("async") or complete
\* it at once with a verdict.
ClientBehaviour == {"async"} \cup LimitStatus

\* client_->limit(*this, domain, descriptors, request id)
Limit(f, descs, behaviour, enforcing, ub, re) ==
    LET f1 == [f EXCEPT !.limitCalls = Append(@, descs)]
    IN  IF behaviour = "async" THEN [f1 EXCEPT !.pending = TRUE]
        ELSE Deliver(f1, behaviour, enforcing, ub, re, TRUE)

\* ShouldLimit without the emptiness test: limit() is called for any list.
ShouldLimit_Always(descs) == TRUE

\* The test guarding the call of limit().
ShouldLimit(descs) == descs # <<>>

\* The value decodeHeaders returns.
HeadersStatus(st) ==
    IF st = "Calling" \/ st = "Responded" THEN "StopIteration" ELSE "Continue"

\* GateEnabled that lets every request in whatever the runtime answers.
GateEnabled_Ignored(answer) == TRUE

\* The test on featureEnabled("ratelimit.http_filter_enabled", 100).
GateEnabled(answer) == answer

\* Filter::decodeHeaders.  ret = "none": the handler did not return.
decodeHeaders(f, enabled, route, found, descs, behaviour, enforcing, ub, re) ==
    IF ~GateEnabled(enabled)
    THEN [f |-> f, routeAsked |-> FALSE, evaluated |-> FALSE,
          descriptors |-> <<>>, ret |-> "Continue"]
    ELSE IF ~route
    THEN [f |-> f, routeAsked |-> TRUE, evaluated |-> FALSE,
          descriptors |-> <<>>, ret |-> HeadersStatus(f.state_)]
    ELSE
        LET f1 == [f EXCEPT !.cluster_ = IF found THEN "cluster" ELSE "null"]
            f2 == IF ShouldLimit(descs)
                  THEN Limit([f1 EXCEPT !.state_ = "Calling",
                                        !.initiating_call_ = TRUE],
                             descs, behaviour, enforcing, ub, re)
                  ELSE f1
            f3 == IF ShouldLimit(descs) /\ f2.fault = "none"
                  THEN [f2 EXCEPT !.initiating_call_ = FALSE]
                  ELSE f2
        IN  [f |-> f3, routeAsked |-> TRUE, evaluated |-> TRUE,
             descriptors |-> descs,
             ret |-> IF f3.fault = "none" THEN HeadersStatus(f3.state_)
                     ELSE "none"]

\* ------------------------------------------------------------------ Init
\* The filter after construction, before the chain has called it.
Fresh ==
    /\ state_ = "Idle"
    /\ initiating_call_ = FALSE
    /\ cluster_ = "unset"
    /\ gate = "unasked"
    /\ routeAsked = FALSE
    /\ evaluated = FALSE
    /\ descriptors = <<>>
    /\ limitCalls = <<>>
    /\ cancelCalls = 0
    /\ pending = FALSE
    /\ completions = <<>>
    /\ stats = NoStats
    /\ encoded = <<>>
    /\ responseFlag = FALSE
    /\ continued = 0
    /\ hdrStatus = "none"
    /\ dataStatus = <<>>
    /\ trailersStatus = "none"
    /\ resetLog = <<>>
    /\ reentries = <<>>
    /\ fault = "none"

\* The policies are left open: decodeHeaders draws the descriptors of any.
Init ==
    /\ Fresh
    /\ debug \in BOOLEAN
    /\ routePolicy = <<>>
    /\ vhPolicy = <<>>

\* --------------------------------------------------------------- actions
\* The process runs and the stream has not been reset.
Alive == fault = "none" /\ resetLog = <<>>

\* What a completion meets: the enforcing gate's answer, the outcome of a
\* null cluster_ and what the chain does inside the callback.
Completing == [enforcing : BOOLEAN, ub : NullDeref, re : Reentry]

\* One decodeHeaders call, its inputs drawn from the given sets.
HeadersCall(enabledS, routeS, foundS, descsS, behaviourS, completingS) ==
    /\ \E enabled \in enabledS, route \in routeS, found \in foundS,
          descs \in descsS, behaviour \in behaviourS, c \in completingS :
          LET r == decodeHeaders(Cur, enabled, route, found, descs,
                                 behaviour, c.enforcing, c.ub, c.re)
          IN  /\ Commit(r.f)
              /\ gate' = IF enabled THEN "enabled" ELSE "disabled"
              /\ routeAsked' = r.routeAsked
              /\ evaluated' = r.evaluated
              /\ descriptors' = r.descriptors
              /\ hdrStatus' = r.ret
    /\ UNCHANGED <<dataStatus, trailersStatus, debug, policies>>

\* The chain calls decodeHeaders, once, first.
DecodeHeaders ==
    /\ Alive
    /\ hdrStatus = "none"
    /\ HeadersCall(BOOLEAN, BOOLEAN, BOOLEAN, DescriptorLists, ClientBehaviour,
                   Completing)

\* One decodeData call on the filter.
DoDecodeData ==
    /\ IF AssertFails(state_, debug)
       THEN fault' = "assert" /\ UNCHANGED dataStatus
       ELSE dataStatus' = Append(dataStatus, decodeData(state_))
            /\ UNCHANGED fault
    /\ UNCHANGED <<filter, effects, headers, trailersStatus, debug, policies>>

\* One decodeTrailers call on the filter.
DoDecodeTrailers ==
    /\ IF AssertFails(state_, debug)
       THEN fault' = "assert" /\ UNCHANGED trailersStatus
       ELSE trailersStatus' = decodeTrailers(state_) /\ UNCHANGED fault
    /\ UNCHANGED <<filter, effects, headers, dataStatus, debug, policies>>

\* The chain delivers body data: after the headers, before the trailers, and
\* not once the filter has answered the request itself.
DecodeData ==
    /\ Alive
    /\ hdrStatus # "none"
    /\ trailersStatus = "none"
    /\ Len(dataStatus) < MaxData
    /\ encoded = <<>>
    /\ DoDecodeData

\* The chain delivers the trailers, once, under the same conditions.
DecodeTrailers ==
    /\ Alive
    /\ hdrStatus # "none"
    /\ trailersStatus = "none"
    /\ encoded = <<>>
    /\ DoDecodeTrailers

\* The decision client completes the call it holds, after limit() returned.
Complete ==
    /\ fault = "none"
    /\ pending
    /\ \E status \in LimitStatus, enforcing \in BOOLEAN, ub \in NullDeref,
          re \in Reentry :
          Commit(Deliver(Cur, status, enforcing, ub, re, FALSE))
    /\ UNCHANGED <<chain, debug, policies>>

\* One firing of the reset-stream callback.
DoReset ==
    /\ Commit(FireReset(Cur))
    /\ UNCHANGED <<chain, debug, policies>>

\* The stream is reset: its reset callbacks fire, once.
ResetStream ==
    /\ Alive
    /\ DoReset

Next ==
    \/ DecodeHeaders
    \/ DecodeData
    \/ DecodeTrailers
    \/ Complete
    \/ ResetStream

\* The filter among collaborators that keep their contracts.
Spec == Init /\ [][Next]_vars

\* The same, with a decision client that completes every call it holds.
SpecLive == Init /\ [][Next]_vars /\ WF_vars(Complete)

\* ------------------------------------- collaborators breaking a contract
\* The reset-stream callback fires again on a stream already reset.
ResetAgain ==
    /\ fault = "none"
    /\ resetLog # <<>>
    /\ Len(resetLog) < MaxResets
    /\ DoReset

\* The decision client invokes complete() again for a call it has completed.
CompleteAgain ==
    /\ Alive
    /\ hdrStatus # "none"
    /\ completions # <<>>
    /\ Len(completions) < MaxCompletes
    /\ \E status \in LimitStatus, enforcing \in BOOLEAN, ub \in NullDeref,
          re \in Reentry :
          Commit(Deliver(Cur, status, enforcing, ub, re, FALSE))
    /\ UNCHANGED <<chain, debug, policies>>

\* The chain delivers body data although the filter has sent its response.
StrayDecodeData ==
    /\ Alive
    /\ hdrStatus # "none"
    /\ trailersStatus = "none"
    /\ Len(dataStatus) < MaxData
    /\ encoded # <<>>
    /\ DoDecodeData

\* The chain delivers the trailers although the filter has sent its response.
StrayDecodeTrailers ==
    /\ Alive
    /\ hdrStatus # "none"
    /\ trailersStatus = "none"
    /\ encoded # <<>>
    /\ DoDecodeTrailers

NextFault ==
    \/ Next
    \/ ResetAgain
    \/ CompleteAgain
    \/ StrayDecodeData
    \/ StrayDecodeTrailers

\* The filter among collaborators that may break their contracts.
SpecFault == Init /\ [][NextFault]_vars

NextRefire ==
    \/ Next
    \/ ResetAgain

\* The filter on a stream that may fire the reset callback again.
SpecRefire == Init /\ [][NextRefire]_vars

\* ------------------------------------------- policies of the request fixed
\* The route's policy may be one entry longer than the virtual host's.
RoutePolicies == SeqsUpTo(RuleEntries, MaxRules + 1)

\* The request's route carries these two policies.
InitEval ==
    /\ Fresh
    /\ debug = TRUE
    /\ routePolicy \in RoutePolicies
    /\ vhPolicy \in Policies

\* decodeHeaders on a request whose route resolves to the fixed policies,
\* with the gate enabled and a client that keeps the call.
DecodeHeadersOfPolicies ==
    /\ Alive
    /\ hdrStatus = "none"
    /\ HeadersCall({TRUE}, {TRUE}, {TRUE},
                   {CollectDescriptors(routePolicy, vhPolicy)}, {"async"},
                   {[enforcing |-> TRUE, ub |-> "segv", re |-> "none"]})

NextEval == DecodeHeadersOfPolicies

\* Policy evaluation inside decodeHeaders, for every pair of policies.
SpecEval == InitEval /\ [][NextEval]_vars

\* ------------------------------------------------------------ type check
TypeOK ==
    /\ state_ \in {States[i] : i \in 1..Len(States)}
    /\ initiating_call_ \in BOOLEAN
    /\ cluster_ \in {"unset", "null", "cluster"}
    /\ gate \in {"unasked", "enabled", "disabled"}
    /\ routeAsked \in BOOLEAN
    /\ evaluated \in BOOLEAN
    /\ descriptors \in SeqsUpTo(Descriptor, 2 * MaxRules + 1)
    /\ cancelCalls \in Nat
    /\ pending \in BOOLEAN
    /\ continued \in Nat
    /\ responseFlag \in BOOLEAN
    /\ hdrStatus \in {"none", "Continue", "StopIteration"}
    /\ trailersStatus \in {"none", "Continue", "StopIteration"}
    /\ fault \in {"none", "segv", "assert"}
    /\ debug \in BOOLEAN
    /\ routePolicy \in RoutePolicies
    /\ vhPolicy \in Policies

\* ------------------------------------------------- vocabulary of the claims
\* The synthesized rejection: status 429, end of stream, no body.
Rejection == [status |-> TooManyRequests, end_stream |-> TRUE]

\* The decision call of the request has completed, once, with c the record
\* of that completion.
CompletedOnce == Len(completions) = 1
TheCompletion == completions[1]

\* The completion let the request through.
Allowing(c) == ~(c.status = "OverLimit" /\ c.enforcing)

\* The chain was released towards upstream: decodeHeaders returned Continue
\* or the paused chain was resumed.
Released == hdrStatus = "Continue" \/ continued > 0

\* Released exactly once, the way the completion's timing requires.
ReleasedOnce(c) ==
    IF c.sync THEN hdrStatus = "Continue" /\ continued = 0
    ELSE hdrStatus = "StopIteration" /\ continued = 1

\* The cluster registry found the route's cluster.
ClusterResolved == cluster_ = "cluster"

\* Total of the three outcome counters.
OutcomeCount == stats.ok + stats.error + stats.over_limit

\* Number of firings of the reset callback that saw state_ = Calling.
FiringsWhileCalling ==
    Cardinality({i \in DOMAIN resetLog : resetLog[i] = "Calling"})

\* --------------------------------------------------------------------- C1
\* C1: a request whose decision call completes with OverLimit while the
\* enforcing gate is enabled gets exactly one 429 with end of stream,
\* over_limit and the response-code stat are charged once each, Phase is
\* Responded, continueDecoding is never called and decodeHeaders does not
\* return Continue (StopIteration when the completion is synchronous).
C1_Body ==
    /\ encoded = <<Rejection>>
    /\ stats.over_limit = 1
    /\ stats.rc_429 = 1
    /\ state_ = "Responded"
    /\ responseFlag
    /\ continued = 0
    /\ hdrStatus # "Continue"
    /\ (TheCompletion.sync => hdrStatus = "StopIteration")

C1_OverLimitEnforced ==
    (CompletedOnce /\ TheCompletion.status = "OverLimit"
        /\ TheCompletion.enforcing) => C1_Body

\* C1 restricted to requests whose cluster the registry found.
C1_WithCluster ==
    (CompletedOnce /\ TheCompletion.status = "OverLimit"
        /\ TheCompletion.enforcing /\ ClusterResolved) => C1_Body

\* --------------------------------------------------------------------- C2
\* C2: a request whose decision call completes with Error proceeds whatever
\* the enforcing gate says: no 429, Phase Complete, chain released,
\* ratelimit.error charged once, no response-code stat.
C2_Body ==
    /\ encoded = <<>>
    /\ state_ = "Complete"
    /\ ReleasedOnce(TheCompletion)
    /\ stats.error = 1
    /\ stats.rc_429 = 0

C2_ErrorFailsOpen ==
    (CompletedOnce /\ TheCompletion.status = "Error") => C2_Body

\* C2 restricted to requests whose cluster the registry found.
C2_WithCluster ==
    (CompletedOnce /\ TheCompletion.status = "Error" /\ ClusterResolved)
        => C2_Body

\* --------------------------------------------------------------------- C3
\* C3: after an allowing completion the chain is released exactly once: a
\* synchronous completion does not call continueDecoding and decodeHeaders
\* returns Continue; a later completion finds decodeHeaders returned
\* StopIteration and calls continueDecoding exactly once.
C3_ReleasedExactlyOnce ==
    (CompletedOnce /\ Allowing(TheCompletion)) => ReleasedOnce(TheCompletion)

\* C3 restricted to requests whose cluster the registry found.
C3_WithCluster ==
    (CompletedOnce /\ Allowing(TheCompletion) /\ ClusterResolved)
        => ReleasedOnce(TheCompletion)

\* --------------------------------------------------------------------- C4
\* C4 as claimed: once the reset callback has fired while Phase = Calling,
\* cancel() has been invoked exactly once, however often the callback fires,
\* and nothing a completion does (Phase, stats, 429, continueDecoding) has
\* happened.
NoCompletionEffect ==
    /\ state_ = "Calling"
    /\ completions = <<>>
    /\ ~pending
    /\ stats = NoStats
    /\ encoded = <<>>
    /\ continued = 0

C5_SecondCompleteFaults ==
    Len(completions) > 1 =>
        /\ fault = "assert"
        /\ OutcomeCount <= 1
        /\ Len(encoded) <= 1
        /\ continued <= 1

\* The part of C5 the decision client's contract gives: at most once.
C5_AtMostOnce == Len(completions) <= 1

\* --------------------------------------------------------------------- C6
\* C6: Phase only moves forward in the order Idle, Calling, Complete,
\* Responded: no step takes it back to an earlier Phase.
C6_PhaseMonotonic == [][Rank(state_') >= Rank(state_)]_vars

\* Phase went through Calling and Complete to Responded.
C6_Witness ==
    /\ state_ = "Responded"
    /\ CompletedOnce
    /\ ~TheCompletion.sync

\* --------------------------------------------------------------------- C7
\* C7: a request whose decision call completes with OverLimit while the
\* enforcing gate is disabled proceeds (chain released, Phase Complete, no
\* response) and over_limit and the 429 response-code stat are charged once
\* each.
C7_Body ==
    /\ encoded = <<>>
    /\ state_ = "Complete"
    /\ ReleasedOnce(TheCompletion)
    /\ stats.over_limit = 1
    /\ stats.rc_429 = 1

C7_OverLimitNotEnforced ==
    (CompletedOnce /\ TheCompletion.status = "OverLimit"
        /\ ~TheCompletion.enforcing) => C7_Body

\* C7 restricted to requests whose cluster the registry found.
C7_WithCluster ==
    (CompletedOnce /\ TheCompletion.status = "OverLimit"
        /\ ~TheCompletion.enforcing /\ ClusterResolved) => C7_Body

\* --------------------------------------------------------------------- C8
\* C8: a request whose decision call completes with OK proceeds,
\* ratelimit.ok is charged once and nothing else is charged; every
\* completion charges exactly one of the three outcome counters.
C8_Body ==
    /\ encoded = <<>>
    /\ ReleasedOnce(TheCompletion)
    /\ stats = [NoStats EXCEPT !.ok = 1]

C8_OkProceeds ==
    /\ (CompletedOnce /\ TheCompletion.status = "OK") => C8_Body
    /\ CompletedOnce => OutcomeCount = 1

\* C8 restricted to requests whose cluster the registry found.
C8_WithCluster ==
    /\ (CompletedOnce /\ TheCompletion.status = "OK" /\ ClusterResolved)
           => C8_Body
    /\ (CompletedOnce /\ ClusterResolved) => OutcomeCount = 1

\* --------------------------------------------------------------------- C9
\* C9: a request that is not terminated early either proceeds (chain
\* released, no response of this filter) or gets the 429 and is never
\* released; never both, and never neither once the decision has completed.
Proceeds == encoded = <<>> /\ Released
Rejected == encoded = <<Rejection>> /\ ~Released

C9_ProceedsOrRejected ==
    resetLog = <<>> =>
        /\ ~(encoded # <<>> /\ Released)
        /\ (completions # <<>> => Proceeds \/ Rejected)

\* C9 restricted to requests whose cluster the registry found.
C9_WithCluster ==
    (resetLog = <<>> /\ (completions # <<>> => ClusterResolved)) =>
        /\ ~(encoded # <<>> /\ Released)
        /\ (completions # <<>> => Proceeds \/ Rejected)

\* -------------------------------------------------------------------- C10
\* C10: when the descriptors collected from the route's and the virtual
\* host's policies are empty, limit() is never invoked, Phase stays Idle and
\* decodeHeaders, decodeData and decodeTrailers all return Continue.
C10_EmptyNeverLimits ==
    (evaluated /\ descriptors = <<>>) =>
        /\ limitCalls = <<>>
        /\ state_ = "Idle"
        /\ hdrStatus = "Continue"
        /\ \A i \in DOMAIN dataStatus : dataStatus[i] = "Continue"
        /\ trailersStatus \in {"none", "Continue"}

\* Body and trailers went through a request with no descriptors.
C10_Witness ==
    /\ evaluated
    /\ descriptors = <<>>
    /\ dataStatus # <<>>
    /\ trailersStatus = "Continue"

\* -------------------------------------------------------------------- C11
\* C11: when the global gate ratelimit.http_filter_enabled answers disabled,
\* decodeHeaders leaves the filter's fields as constructed (Phase Idle, no
\* cluster reference, initiating flag clear), asks for no route, evaluates
\* no policy, never invokes the decision client and returns Continue.
C11_GateDisabled ==
    gate = "disabled" =>
        /\ state_ = "Idle"
        /\ cluster_ = "unset"
        /\ ~initiating_call_
        /\ ~routeAsked
        /\ ~evaluated
        /\ limitCalls = <<>>
        /\ completions = <<>>
        /\ hdrStatus = "Continue"

\* decodeHeaders ran with the gate disabled and the body followed.
C11_Witness ==
    /\ gate = "disabled"
    /\ hdrStatus = "Continue"
    /\ dataStatus # <<>>

\* -------------------------------------------------------------------- C12
\* C12: when the cluster registry did not find the route's cluster and the
\* descriptors are non-empty, the completion charges no stat, does not
\* fault, and the request is still allowed (released exactly once) or
\* rejected with the 429 as the verdict says.
C12_MissingClusterTolerated ==
    (CompletedOnce /\ cluster_ = "null") =>
        /\ fault = "none"
        /\ stats = NoStats
        /\ IF Allowing(TheCompletion)
           THEN encoded = <<>> /\ ReleasedOnce(TheCompletion)
           ELSE encoded = <<Rejection>> /\ state_ = "Responded"

\* -------------------------------------------------------------------- C13
\* C13: a decodeData call made while Phase = Calling returns
\* StopIterationAndBuffer and a decodeTrailers call made then returns
\* StopIteration; made while Phase is Idle or Complete, both return Continue.
C13_PausedWhileCalling ==
    [][/\ dataStatus' # dataStatus =>
            /\ state_ = "Calling" =>
                 dataStatus'[Len(dataStatus')] = "StopIterationAndBuffer"
            /\ state_ \in {"Idle", "Complete"} =>
                 dataStatus'[Len(dataStatus')] = "Continue"
       /\ trailersStatus' # trailersStatus =>
            /\ state_ = "Calling" => trailersStatus' = "StopIteration"
            /\ state_ \in {"Idle", "Complete"} => trailersStatus' = "Continue"
      ]_vars

\* Body data was paused during the call, and after the completion body data
\* and the trailers went through.
C13_Witness ==
    /\ dataStatus = <<"StopIterationAndBuffer", "Continue">>
    /\ trailersStatus = "Continue"
    /\ state_ = "Complete"

\* -------------------------------------------------------------------- C14
\* C14: a decodeData or decodeTrailers call made while Phase = Responded
\* never returns normally (it is a defensive fault); and while the chain
\* stops calling the filter after its response the assertion never fails.
C14_RespondedCallFaults ==
    [][state_ = "Responded" =>
           dataStatus' = dataStatus /\ trailersStatus' = trailersStatus]_vars

\* The part of C14 the chain's contract gives: the assertion never fails.
C14_NeverViolatedInContract == fault # "assert"

\* -------------------------------------------------------------------- C15
\* The entry has a route key and its per-route gate answered disabled.
RuleDisabled(rule) == rule.routeKey # "" /\ ~rule.enabled

\* The policy without its disabled entries.
WithoutDisabled(policy) == SelectSeq(policy, LAMBDA rule : ~RuleDisabled(rule))

\* The descriptors of all entries of a policy, in the policy's order.
RECURSIVE AllDescs(_)
AllDescs(policy) ==
    IF policy = <<>> THEN <<>>
    ELSE Head(policy).descs \o AllDescs(Tail(policy))

\* C15: an entry with a non-empty route key whose per-route gate answers
\* disabled contributes no descriptor, and the other entries of the request
\* contribute what they contribute when the disabled entries are absent, in
\* the same order.
C15_DisabledRuleOmitted ==
    evaluated =>
        descriptors = AllDescs(WithoutDisabled(routePolicy))
                          \o AllDescs(WithoutDisabled(vhPolicy))

\* A disabled entry that has descriptors stands before an entry that
\* contributes.
C15_Witness ==
    /\ evaluated
    /\ Len(routePolicy) = 2
    /\ RuleDisabled(routePolicy[1])
    /\ routePolicy[1].descs # <<>>
    /\ descriptors = routePolicy[2].descs
    /\ descriptors # <<>>

\* -------------------------------------------------------------------- C16
\* What one policy contributes, entry by entry in encounter order.
RECURSIVE Contributions(_)
Contributions(policy) ==
    IF policy = <<>> THEN <<>>
    ELSE (IF RuleDisabled(Head(policy)) THEN <<>> ELSE Head(policy).descs)
             \o Contributions(Tail(policy))

\* C16: the list passed to limit() is what the route's applicable entries
\* contribute, in encounter order, followed by what the virtual host's
\* contribute, in encounter order; being a function of the policies and the
\* gate answers alone, it is the same list on every evaluation of them.
C16_RouteThenVirtualHost ==
    limitCalls # <<>> =>
        limitCalls = <<Contributions(routePolicy) \o Contributions(vhPolicy)>>

\* Both policies contribute, and different descriptors.
C16_Witness ==
    /\ limitCalls # <<>>
    /\ Contributions(routePolicy) # <<>>
    /\ Contributions(vhPolicy) # <<>>
    /\ Contributions(routePolicy)[1] # Contributions(vhPolicy)[1]

\* -------------------------------------------------------------------- C17
\* limit() is invoked by decodeHeaders alone, with the non-empty list it
\* collected, at most once.
LimitOnlyOnce ==
    /\ Len(limitCalls) <= 1
    /\ \A i \in DOMAIN limitCalls : limitCalls[i] # <<>>
    /\ limitCalls # <<>> => evaluated /\ limitCalls = <<descriptors>>

\* C17 as claimed: limit() is invoked only by decodeHeaders, only with
\* non-empty descriptors and at most once, and a call is outstanding
\* (neither completed nor cancelled) exactly when Phase = Calling.
C17_OutstandingIffCalling ==
    /\ LimitOnlyOnce
    /\ pending <=> state_ = "Calling"

\* C17 amended: limit() is invoked only by decodeHeaders, only with
\* non-empty descriptors and at most once; a call is outstanding only while
\* Phase = Calling, and Phase = Calling means the call is outstanding or was
\* cancelled (the reset callback leaves Phase at Calling).
C17_OutstandingOrCancelled ==
    /\ LimitOnlyOnce
    /\ pending => state_ = "Calling"
    /\ state_ = "Calling" => pending \/ cancelCalls > 0

\* The call was cancelled: none is outstanding and Phase is still Calling.
C17_Witness ==
    /\ state_ = "Calling"
    /\ ~pending
    /\ cancelCalls = 1
    /\ Len(limitCalls) = 1

\* -------------------------------------------------------------------- C18
\* C18: a firing of the reset-stream callback that finds Phase Idle,
\* Complete or Responded invokes no cancel() and changes no field of the
\* filter and nothing the filter has done.
C18_ResetOutsideCallingInert ==
    [][(resetLog' # resetLog /\ reentries' = reentries
            /\ state_ # "Calling") =>
           /\ cancelCalls' = cancelCalls
           /\ UNCHANGED <<filter, limitCalls, pending, completions, stats,
                          encoded, responseFlag, continued, fault>>]_vars

\* The stream was reset after the decision had completed.
C18_Witness ==
    /\ resetLog = <<"Complete">>
    /\ reentries = <<>>
    /\ CompletedOnce
    /\ cancelCalls = 0

\* -------------------------------------------------------------------- C19
\* C19: every handler re-entered from a callback of complete() sees the
\* final Phase (Responded from encodeHeaders, Complete from
\* continueDecoding), never Calling: decodeData and decodeTrailers return
\* Continue and the reset callback invokes no cancel().
C19_CallbacksSeeFinalPhase ==
    \A i \in DOMAIN reentries :
        LET e == reentries[i]
        IN  /\ e.phase # "Calling"
            /\ e.callback = "encodeHeaders" => e.phase = "Responded"
            /\ e.callback = "continueDecoding" => e.phase = "Complete"
            /\ e.handler \in {"decodeData", "decodeTrailers"} =>
                   e.result = "Continue"
            /\ e.handler = "reset" => e.result = "no_cancel"

\* Body data came back through the filter from continueDecoding.
C19_Witness ==
    /\ reentries # <<>>
    /\ reentries[1].callback = "continueDecoding"
    /\ reentries[1].handler = "decodeData"
    /\ continued = 1

\* -------------------------------------------------------------------- C20
\* The request was decided: released at Complete, answered with the 429 at
\* Responded, or its call was cancelled.
Decided ==
    \/ state_ = "Complete" /\ Released
    \/ state_ = "Responded" /\ encoded = <<Rejection>>
    \/ cancelCalls > 0

\* C20: with a decision client that completes every call it holds, a
\* request in Phase = Calling is eventually decided: it reaches Complete
\* with the chain released or Responded with the 429 sent, or its call is
\* cancelled by a stream reset.
C20_CallingEventuallyDecided == (state_ = "Calling") ~> Decided

\* C20 restricted to requests whose cluster the registry found.
C20_WithCluster == (state_ = "Calling" /\ ClusterResolved) ~> Decided

====
